---- MODULE Spec2Model ----
(***************************************************************************)
(* Faceted objects (src/rust/src/main.rs): a FacetedObject holds a core    *)
(* payload and a RwLock-guarded map TypeId -> facet.  Threads sharing an   *)
(* object call attach_facet, with_facet, with_facet_mut, has_facet and the *)
(* composite EmployeeOperations::perform_financial_operation.  Every lock  *)
(* acquisition, critical section and release is a step of its own, so that *)
(* interleavings of several callers are explored.                          *)
(***************************************************************************)
EXTENDS Integers, Sequences, FiniteSets, TLC

VARIABLES facets, lock, core, facets0, thr, calls, attached, incIssued, onlyIncs,
          script

vars ==
    <<facets, lock, core, facets0, thr, calls, attached, incIssued, onlyIncs, script>>

\* ------------------------------------------------------------------ bounds
NumThreads == 2
MaxCalls == 2

Threads == 1..NumThreads
NoThread == 0
Objects == {"o1", "o2"}

\* ------------------------------------------------------------ result values
\* Result<T, String>
Ok(v) == [ok |-> TRUE, v |-> v]
Err(e) == [ok |-> FALSE, v |-> e]
NoRet == Err("no call returned")
Unit == "()"

ErrWriteLock == "Failed to acquire write lock"
ErrReadLock == "Failed to acquire read lock"
ErrAlreadyAttached == "Facet already attached"
ErrDowncast == "Failed to downcast facet"
ErrNotFound == "Required facet not found"
ErrDepositAmount == "Deposit amount must be positive"
ErrWithdrawAmount == "Withdrawal amount must be positive"
ErrInsufficient == "Insufficient funds"
ErrAccessDenied == "Access denied: insufficient permissions for financial operations"

\* ------------------------------------------------------------------ facets
FacetTypes == {"AccountFacet", "PermissionFacet", "AuditFacet"}

\* An empty slot of the HashMap<TypeId, Box<dyn Facet>>.
NoFacet == [tid |-> "None"]

AccountNew(account_number) ==
    [tid |-> "AccountFacet", balance |-> 0, account_number |-> account_number]

AuditNew == [tid |-> "AuditFacet", entries |-> <<>>]

RolePermissions(role) ==
    CASE role = "admin" -> {"read", "write", "delete", "financial_operations"}
      [] role = "manager" -> {"read", "write", "financial_operations"}
      [] role = "employee" -> {"read"}
      [] OTHER -> {}

PermissionNew(role) ==
    [tid |-> "PermissionFacet",
     permissions |-> [p \in RolePermissions(role) |-> TRUE],
     role |-> role]

\* HashMap::insert(key, value)
MapInsert(m, k, b) == [q \in DOMAIN m \cup {k} |-> IF q = k THEN b ELSE m[q]]

has_permission(f, p) ==
    IF p \in DOMAIN f.permissions THEN f.permissions[p] ELSE FALSE

grant_permission(f, p) == [f EXCEPT !.permissions = MapInsert(@, p, TRUE)]

revoke_permission(f, p) == [f EXCEPT !.permissions = MapInsert(@, p, FALSE)]

\* Mutant: the new entry takes the place of the trail.
log_operation_Overwrite(f, operation, details) ==
    [f EXCEPT !.entries = <<[operation |-> operation, details |-> details]>>]

log_operation(f, operation, details) ==
    [f EXCEPT !.entries = Append(@, [operation |-> operation, details |-> details])]

get_recent_entries(f, count) ==
    LET start == IF Len(f.entries) > count THEN Len(f.entries) - count ELSE 0
    IN  SubSeq(f.entries, start + 1, Len(f.entries))

\* deposit: `bal` is the balance the callback read from the facet.
deposit(f, bal, amount) ==
    IF amount <= 0
    THEN [facet |-> f, r |-> Err(ErrDepositAmount)]
    ELSE [facet |-> [f EXCEPT !.balance = bal + amount], r |-> Ok(bal + amount)]

withdraw(f, bal, amount) ==
    IF amount <= 0
    THEN [facet |-> f, r |-> Err(ErrWithdrawAmount)]
    ELSE IF amount > bal
         THEN [facet |-> f, r |-> Err(ErrInsufficient)]
         ELSE [facet |-> [f EXCEPT !.balance = bal - amount], r |-> Ok(bal - amount)]

\* Any::downcast_ref::<F>() / downcast_mut::<F>() on a stored facet
Downcasts(f, F) == f.tid = F

\* ------------------------------------------------------------ core payload
EmployeeNew(name, id, department) ==
    [type |-> "Employee", name |-> name, id |-> id, department |-> department]

OtherCore == [type |-> "String", name |-> "", id |-> "", department |-> ""]

Alice == EmployeeNew("Alice Johnson", "EMP001", "Engineering")

Cores == {Alice, OtherCore}

\* Mutant: the payload is handed out under whatever type is asked for.
get_core_AnyType(c, T) == Ok(c)

\* get_core::<T>: Some(payload) iff the payload's type is T.
get_core(c, T) == IF c.type = T THEN Ok(c) ELSE Err("None")

\* --------------------------------------------------------------- operations
\* A callback handed to with_facet / with_facet_mut / the composite operation.
Cb(fn, amount, perm) == [fn |-> fn, amount |-> amount, perm |-> perm]
NoCb == Cb("none", 0, "")
PanicCb == Cb("panic", 0, "")

\* A call of the registry interface: operation name, the static facet type F,
\* the callback and (attach_facet) the facet instance handed over.
Op(name, F, cb, facet) == [name |-> name, F |-> F, cb |-> cb, facet |-> facet]
NoOp == Op("none", "None", NoCb, NoFacet)

FinOp == "financial_operations"

\* Facet instances the callers attach; F is the instance's own type.
NewFacets ==
    {AccountNew("ACC002"), PermissionNew("manager"), PermissionNew("employee"), AuditNew}

\* Closures over &F the callers pass to with_facet.
ReadCbs ==
    {Op("with_facet", "AccountFacet", Cb("get_balance", 0, ""), NoFacet),
     Op("with_facet", "PermissionFacet", Cb("has_permission", 0, FinOp), NoFacet),
     Op("with_facet", "AuditFacet", Cb("get_recent_entries", 1, ""), NoFacet),
     Op("with_facet", "AccountFacet", PanicCb, NoFacet)}

\* FnMut(&mut AccountFacet) -> Result<f64, String> closures of the callers.
FinancialCbs ==
    {Cb("deposit", 0, ""), Cb("deposit", 1, ""), Cb("withdraw", 0, ""),
     Cb("withdraw", 1, ""), PanicCb}

\* Closures over &mut F the callers pass to with_facet_mut.
MutCbs ==
    {Op("with_facet_mut", "AccountFacet", cb, NoFacet) : cb \in FinancialCbs \ {PanicCb}}
    \cup {Op("with_facet_mut", "PermissionFacet", PanicCb, NoFacet),
          Op("with_facet_mut", "PermissionFacet", Cb("grant_permission", 0, FinOp), NoFacet),
          Op("with_facet_mut", "PermissionFacet", Cb("revoke_permission", 0, FinOp), NoFacet),
          Op("with_facet_mut", "AuditFacet", Cb("log_operation", 0, "manual"), NoFacet)}

TopOps ==
    {Op("attach_facet", f.tid, NoCb, f) : f \in NewFacets}
    \cup ReadCbs
    \cup MutCbs
    \cup {Op("has_facet", F, NoCb, NoFacet) : F \in FacetTypes}
    \cup {Op("perform_financial_operation", "None", cb, NoFacet) :
            cb \in FinancialCbs \ {Cb("deposit", 0, "")}}

\* The counter increment of the lost-update property: deposit(1) through
\* with_facet_mut.
IncOp == Op("with_facet_mut", "AccountFacet", Cb("deposit", 1, ""), NoFacet)

\* ------------------------------------------------------------- thread state
\* pc: position of the thread; top: the call the caller issued; cur: the
\* registry call being executed (top itself, or a step of the composite);
\* phase: step of perform_financial_operation; tmp: balance read by the running
\* callback; balance: `balance` local of the composite; res: result of the
\* registry call that just returned inside the composite; ret: result returned to
\* the caller; trace: callbacks run so far in the call, with their outcome;
\* summary: the `summary` local of get_employee_summary.
IdleThread(o) ==
    [pc |-> "idle", obj |-> o, top |-> NoOp, cur |-> NoOp, phase |-> "none",
     tmp |-> 0, balance |-> 0, res |-> NoRet, ret |-> NoRet, trace |-> <<>>,
     summary |-> <<>>]

Ev(ev, ok) == [ev |-> ev, ok |-> ok]

\* The event a callback leaves in the trace: which step of the call ran it.
CbEvent(t, ok) ==
    Ev(IF thr[t].phase = "none" THEN "cb" ELSE thr[t].phase, ok)

\* The top-level call of t returns r to its caller.
TopReturn(t, r) ==
    [thr[t] EXCEPT !.pc = "idle", !.cur = NoOp, !.phase = "none", !.tmp = 0,
                   !.balance = 0, !.res = NoRet, !.ret = r, !.summary = <<>>]

\* The registry call t is executing returns r: to the caller, or into the
\* composite operation that issued it.
Return(t, r) ==
    IF thr[t].phase = "none"
    THEN TopReturn(t, r)
    ELSE [thr[t] EXCEPT !.pc = "pfo_ret", !.cur = NoOp, !.tmp = 0, !.res = r]

\* The thread unwinds with a panic: it never returns.
Panicked(t) ==
    [thr[t] EXCEPT !.pc = "panicked", !.cur = NoOp, !.phase = "none", !.tmp = 0,
                   !.balance = 0, !.res = NoRet, !.summary = <<>>]

FirstPc(name) ==
    CASE name = "attach_facet" -> "attach_lock"
      [] name = "with_facet" -> "read_lock"
      [] name = "with_facet_mut" -> "write_lock"
      [] name = "has_facet" -> "has_lock"

\* ---------------------------------------------------------------- RwLock
NewLock == [writer |-> NoThread, readers |-> {}, poisoned |-> FALSE]

\* Mutant: a write guard is handed out while other guards are held.
WriteFree_Always(o) == TRUE

\* Mutant: a write guard only waits for the readers, not for another writer.
WriteFree_ReadersOnly(o) == lock[o].readers = {}

\* RwLock::write() returns once no guard is held.
WriteFree(o) == lock[o].writer = NoThread /\ lock[o].readers = {}

\* Mutant: a read guard is handed out while a write guard is held.
ReadFree_Always(o) == TRUE

\* Mutant: a read guard also waits for the other read guards.
ReadFree_Exclusive(o) == lock[o].writer = NoThread /\ lock[o].readers = {}

\* RwLock::read() returns once no write guard is held.
ReadFree(o) == lock[o].writer = NoThread

\* Mutant: the write guard is never dropped.
ReleaseWrite_Keep(o) == lock

ReleaseWrite(o) == [lock EXCEPT ![o].writer = NoThread]

ReleaseRead(o, t) == [lock EXCEPT ![o].readers = @ \ {t}]

\* A write guard dropped while its thread panics poisons the lock.
PoisonWrite(o) == [lock EXCEPT ![o].writer = NoThread, ![o].poisoned = TRUE]

\* ------------------------------------------------------ registry operations
\* Mutant: every key is reported present.
ContainsKey_Always(m, F) == TRUE

\* HashMap::contains_key / get(..).is_some()
ContainsKey(m, F) == m[F] # NoFacet

\* Mutant: the duplicate check never fires.
AlreadyPresent_Never(m, F) == FALSE

\* attach_facet: if facets.contains_key(&type_id)
AlreadyPresent(m, F) == ContainsKey(m, F)

\* AuditEntry.details: the text and the value formatted into it.
Details(text, n) == <<text, n>>

\* The value a read-only callback computes from the facet.
ReadCb(f, cb) ==
    CASE cb.fn = "get_balance" -> f.balance
      [] cb.fn = "has_permission" -> has_permission(f, cb.perm)
      [] cb.fn = "get_role" -> f.role
      [] cb.fn = "get_recent_entries" -> get_recent_entries(f, cb.amount)
      [] cb.fn = "account_info" -> <<"Account", f.account_number, f.balance>>
      [] cb.fn = "permission_info" -> <<"Role", f.role>>
      [] cb.fn = "audit_info" ->
            IF get_recent_entries(f, cb.amount) # <<>>
            THEN <<"Recent Activity", get_recent_entries(f, cb.amount)>>
            ELSE <<"No recent activity">>

\* A mutating callback on the facet; bal is the balance it read on entry.
MutCb(f, bal, cb) ==
    CASE cb.fn = "deposit" -> deposit(f, bal, cb.amount)
      [] cb.fn = "withdraw" -> withdraw(f, bal, cb.amount)
      [] cb.fn = "grant_permission" ->
            [facet |-> grant_permission(f, cb.perm), r |-> Unit]
      [] cb.fn = "revoke_permission" ->
            [facet |-> revoke_permission(f, cb.perm), r |-> Unit]
      [] cb.fn = "log_operation" ->
            [facet |-> log_operation(f, cb.perm, Details("New balance: {}", cb.amount)),
             r |-> Unit]

\* What the trace keeps of a completed callback: the Ok of a Result, the bool of
\* has_permission; any other callback just completed.
CbOk(cb, r) ==
    CASE cb.fn \in {"deposit", "withdraw"} -> r.ok
      [] cb.fn = "has_permission" -> r
      [] OTHER -> TRUE

ObjOf(t) == thr[t].obj

\* get_employee_summary: the lines on the core payload, if it is an Employee.
CoreLines(o) ==
    LET c == get_core(core[o], "Employee") IN
    IF c.ok THEN <<<<"Employee", c.v.name, c.v.id>>, <<"Department", c.v.department>>>>
    ELSE <<>>

\* get_employee_summary: the facets read, in order, with the callback that
\* formats each and the placeholder that stands for a failed read.
SummaryParts ==
    <<[F |-> "AccountFacet", cb |-> Cb("account_info", 0, ""),
       placeholder |-> <<"No account information">>],
      [F |-> "PermissionFacet", cb |-> Cb("permission_info", 0, ""),
       placeholder |-> <<"No permission information">>],
      [F |-> "AuditFacet", cb |-> Cb("audit_info", 3, ""),
       placeholder |-> <<"No audit information">>]>>

\* The steps of get_employee_summary: one read per part.
SummaryPhases == <<"summary_1", "summary_2", "summary_3">>

PartOf(phase) == CHOOSE k \in DOMAIN SummaryPhases : SummaryPhases[k] = phase

SummaryRead(k) == Op("with_facet", SummaryParts[k].F, SummaryParts[k].cb, NoFacet)

\* The thread enters the call: the composite starts with its permission read,
\* the summary with the core lines and its account read.
Issue(t, op) ==
    IF op.name = "perform_financial_operation"
    THEN [thr[t] EXCEPT !.top = op, !.ret = NoRet, !.trace = <<>>,
                        !.phase = "auth",
                        !.cur = Op("with_facet", "PermissionFacet",
                                   Cb("has_permission", 0, FinOp), NoFacet),
                        !.pc = "read_lock"]
    ELSE IF op.name = "get_employee_summary"
    THEN [thr[t] EXCEPT !.top = op, !.ret = NoRet, !.trace = <<>>,
                        !.phase = SummaryPhases[1],
                        !.summary = CoreLines(thr[t].obj),
                        !.cur = SummaryRead(1),
                        !.pc = "read_lock"]
    ELSE [thr[t] EXCEPT !.top = op, !.ret = NoRet, !.trace = <<>>,
                        !.cur = op, !.pc = FirstPc(op.name)]

\* The caller issues a call of the interface on its object.  The callers are
\* interchangeable: they are numbered in the order of their first call.
Call(t, op) ==
    /\ thr[t].pc = "idle"
    /\ IF t = 1 THEN TRUE ELSE thr[t - 1].top # NoOp
    /\ calls < MaxCalls
    /\ calls' = calls + 1
    /\ thr' = [thr EXCEPT ![t] = Issue(t, op)]
    /\ incIssued' = [incIssued EXCEPT ![ObjOf(t)] = IF op = IncOp THEN @ + 1 ELSE @]
    /\ onlyIncs' = [onlyIncs EXCEPT ![ObjOf(t)] = @ /\ op = IncOp]
    /\ UNCHANGED <<facets, lock, core, facets0, attached, script>>

\* attach_facet: self.facets.write().map_err(..)?
AttachLock(t) ==
    LET o == ObjOf(t) IN
    /\ thr[t].pc = "attach_lock"
    /\ WriteFree(o)
    /\ IF lock[o].poisoned
       THEN /\ thr' = [thr EXCEPT ![t] = Return(t, Err(ErrWriteLock))]
            /\ UNCHANGED lock
       ELSE /\ thr' = [thr EXCEPT ![t].pc = "attach_cs"]
            /\ lock' = [lock EXCEPT ![o].writer = t]
    /\ UNCHANGED <<facets, core, facets0, calls, attached, incIssued, onlyIncs, script>>

\* attach_facet: the contains_key check; a duplicate drops the guard and
\* returns the error.
AttachCheck(t) ==
    LET o == ObjOf(t) IN
    /\ thr[t].pc = "attach_cs"
    /\ IF AlreadyPresent(facets[o], thr[t].cur.F)
       THEN /\ thr' = [thr EXCEPT ![t] = Return(t, Err(ErrAlreadyAttached))]
            /\ lock' = ReleaseWrite(o)
       ELSE /\ thr' = [thr EXCEPT ![t].pc = "attach_insert"]
            /\ UNCHANGED lock
    /\ UNCHANGED <<facets, core, facets0, calls, attached, incIssued, onlyIncs, script>>

\* Mutant: the facet is stored under the type identity of the audit facet.
AttachStore_AuditKey(t) ==
    LET o == ObjOf(t)
        F == thr[t].cur.F
    IN  /\ thr[t].pc = "attach_insert"
        /\ facets' = [facets EXCEPT ![o]["AuditFacet"] = thr[t].cur.facet]
        /\ lock' = ReleaseWrite(o)
        /\ attached' = [attached EXCEPT ![o][F] = Append(@, thr[t].cur.facet)]
        /\ thr' = [thr EXCEPT ![t] = Return(t, Ok(Unit))]
        /\ UNCHANGED <<core, facets0, calls, incIssued, onlyIncs, script>>

\* attach_facet: facets.insert(type_id, Box::new(facet)), drop of the guard, Ok(()).
AttachStore(t) ==
    LET o == ObjOf(t)
        F == thr[t].cur.F
    IN  /\ thr[t].pc = "attach_insert"
        /\ facets' = [facets EXCEPT ![o][F] = thr[t].cur.facet]
        /\ lock' = ReleaseWrite(o)
        /\ attached' = [attached EXCEPT ![o][F] = Append(@, thr[t].cur.facet)]
        /\ thr' = [thr EXCEPT ![t] = Return(t, Ok(Unit))]
        /\ UNCHANGED <<core, facets0, calls, incIssued, onlyIncs, script>>

\* with_facet: self.facets.read().map_err(..)?
ReadLock(t) ==
    LET o == ObjOf(t) IN
    /\ thr[t].pc = "read_lock"
    /\ ReadFree(o)
    /\ IF lock[o].poisoned
       THEN /\ thr' = [thr EXCEPT ![t] = Return(t, Err(ErrReadLock))]
            /\ UNCHANGED lock
       ELSE /\ thr' = [thr EXCEPT ![t].pc = "read_cs"]
            /\ lock' = [lock EXCEPT ![o].readers = @ \cup {t}]
    /\ UNCHANGED <<facets, core, facets0, calls, attached, incIssued, onlyIncs, script>>

\* with_facet: get, downcast_ref, the callback, drop of the guard, return.
ReadBody(t) ==
    LET o == ObjOf(t)
        F == thr[t].cur.F
        cb == thr[t].cur.cb
        f == facets[o][F]
    IN  /\ thr[t].pc = "read_cs"
        /\ lock' = ReleaseRead(o, t)
        /\ thr' = [thr EXCEPT ![t] =
                     IF ~ContainsKey(facets[o], F) THEN Return(t, Err(ErrNotFound))
                     ELSE IF ~Downcasts(f, F) THEN Return(t, Err(ErrDowncast))
                     ELSE IF cb.fn = "panic"
                          THEN [Panicked(t) EXCEPT !.trace = Append(@, CbEvent(t, FALSE))]
                          ELSE [Return(t, Ok(ReadCb(f, cb)))
                                   EXCEPT !.trace =
                                      Append(@, CbEvent(t, CbOk(cb, ReadCb(f, cb))))]]
        /\ UNCHANGED <<facets, core, facets0, calls, attached, incIssued, onlyIncs, script>>

\* with_facet_mut: self.facets.write().map_err(..)?
WriteLock(t) ==
    LET o == ObjOf(t) IN
    /\ thr[t].pc = "write_lock"
    /\ WriteFree(o)
    /\ IF lock[o].poisoned
       THEN /\ thr' = [thr EXCEPT ![t] = Return(t, Err(ErrWriteLock))]
            /\ UNCHANGED lock
       ELSE /\ thr' = [thr EXCEPT ![t].pc = "write_cs"]
            /\ lock' = [lock EXCEPT ![o].writer = t]
    /\ UNCHANGED <<facets, core, facets0, calls, attached, incIssued, onlyIncs, script>>

\* with_facet_mut: get_mut and downcast_mut; on success the callback is entered
\* and reads the facet.
MutLookup(t) ==
    LET o == ObjOf(t)
        F == thr[t].cur.F
        f == facets[o][F]
    IN  /\ thr[t].pc = "write_cs"
        /\ IF ContainsKey(facets[o], F) /\ Downcasts(f, F)
           THEN /\ thr' = [thr EXCEPT ![t].pc = "cb_run",
                                      ![t].tmp = IF F = "AccountFacet" THEN f.balance ELSE 0]
                /\ UNCHANGED lock
           ELSE /\ thr' = [thr EXCEPT ![t] =
                             Return(t, Err(IF ContainsKey(facets[o], F)
                                           THEN ErrDowncast ELSE ErrNotFound))]
                /\ lock' = ReleaseWrite(o)
        /\ UNCHANGED <<facets, core, facets0, calls, attached, incIssued, onlyIncs, script>>

\* Mutant: a callback that panics takes the facet out of its slot.
MutCallback_DropOnPanic(t) ==
    LET o == ObjOf(t)
        F == thr[t].cur.F
        cb == thr[t].cur.cb
    IN  /\ thr[t].pc = "cb_run"
        /\ IF cb.fn = "panic"
           THEN /\ lock' = PoisonWrite(o)
                /\ thr' = [thr EXCEPT ![t] =
                             [Panicked(t) EXCEPT !.trace = Append(@, CbEvent(t, FALSE))]]
                /\ facets' = [facets EXCEPT ![o][F] = NoFacet]
           ELSE LET c == MutCb(facets[o][F], thr[t].tmp, cb) IN
                /\ facets' = [facets EXCEPT ![o][F] = c.facet]
                /\ lock' = ReleaseWrite(o)
                /\ thr' = [thr EXCEPT ![t] =
                             [Return(t, Ok(c.r))
                                EXCEPT !.trace = Append(@, CbEvent(t, CbOk(cb, c.r)))]]
        /\ UNCHANGED <<core, facets0, calls, attached, incIssued, onlyIncs, script>>

\* with_facet_mut: the callback completes (or panics), the guard is dropped and
\* the call returns Ok(result of the callback).
MutCallback(t) ==
    LET o == ObjOf(t)
        F == thr[t].cur.F
        cb == thr[t].cur.cb
    IN  /\ thr[t].pc = "cb_run"
        /\ IF cb.fn = "panic"
           THEN /\ lock' = PoisonWrite(o)
                /\ thr' = [thr EXCEPT ![t] =
                             [Panicked(t) EXCEPT !.trace = Append(@, CbEvent(t, FALSE))]]
                /\ UNCHANGED facets
           ELSE LET c == MutCb(facets[o][F], thr[t].tmp, cb) IN
                /\ facets' = [facets EXCEPT ![o][F] = c.facet]
                /\ lock' = ReleaseWrite(o)
                /\ thr' = [thr EXCEPT ![t] =
                             [Return(t, Ok(c.r))
                                EXCEPT !.trace = Append(@, CbEvent(t, CbOk(cb, c.r)))]]
        /\ UNCHANGED <<core, facets0, calls, attached, incIssued, onlyIncs, script>>

\* has_facet: self.facets.read().unwrap()
HasLock(t) ==
    LET o == ObjOf(t) IN
    /\ thr[t].pc = "has_lock"
    /\ ReadFree(o)
    /\ IF lock[o].poisoned
       THEN /\ thr' = [thr EXCEPT ![t] = Panicked(t)]
            /\ UNCHANGED lock
       ELSE /\ thr' = [thr EXCEPT ![t].pc = "has_cs"]
            /\ lock' = [lock EXCEPT ![o].readers = @ \cup {t}]
    /\ UNCHANGED <<facets, core, facets0, calls, attached, incIssued, onlyIncs, script>>

\* has_facet: contains_key, drop of the guard; the bool is returned as Ok(bool).
HasBody(t) ==
    LET o == ObjOf(t) IN
    /\ thr[t].pc = "has_cs"
    /\ lock' = ReleaseRead(o, t)
    /\ thr' = [thr EXCEPT ![t] = Return(t, Ok(ContainsKey(facets[o], thr[t].cur.F)))]
    /\ UNCHANGED <<facets, core, facets0, calls, attached, incIssued, onlyIncs, script>>

\* ------------------------------------------- perform_financial_operation
\* Mutant: a failed permission read counts as a grant (unwrap_or(true)).
UnwrapOrTrue(r) == IF r.ok THEN r.v ELSE TRUE

\* .unwrap_or(false) on the result of the permission read
UnwrapOrFalse(r) == IF r.ok THEN r.v ELSE FALSE

\* employee_obj.get_core::<Employee>().map(|emp| emp.name.clone())
\*     .unwrap_or_else(|| "Unknown".to_string())
EmployeeName(o) ==
    LET c == get_core(core[o], "Employee") IN IF c.ok THEN c.v.name ELSE "Unknown"

\* format!("Financial operation completed for {}. New balance: {}", name, balance)
Completed(name, balance) == [employee_name |-> name, balance |-> balance]

\* After the permission read: deny, or go on to the mutation of the account.
PfoAfterAuth(t) ==
    /\ thr[t].pc = "pfo_ret"
    /\ thr[t].phase = "auth"
    /\ thr' = [thr EXCEPT ![t] =
                 IF ~UnwrapOrFalse(thr[t].res)
                 THEN TopReturn(t, Err(ErrAccessDenied))
                 ELSE [@ EXCEPT !.phase = "exec", !.res = NoRet,
                                !.cur = Op("with_facet_mut", "AccountFacet",
                                           thr[t].top.cb, NoFacet),
                                !.pc = "write_lock"]]
    /\ UNCHANGED <<facets, lock, core, facets0, calls, attached, incIssued, onlyIncs,
                   script>>

\* Mutant: the audit append is issued whatever the mutation returned.
PfoAfterExec_LogAlways(t) ==
    LET res == thr[t].res
        b == IF res.ok /\ res.v.ok THEN res.v.v ELSE 0
    IN  /\ thr[t].pc = "pfo_ret"
        /\ thr[t].phase = "exec"
        /\ thr' = [thr EXCEPT ![t] =
                     [@ EXCEPT !.phase = "log", !.res = NoRet, !.balance = b,
                               !.cur = Op("with_facet_mut", "AuditFacet",
                                          Cb("log_operation", b, "financial_operation"),
                                          NoFacet),
                               !.pc = "write_lock"]]
        /\ UNCHANGED <<facets, lock, core, facets0, calls, attached, incIssued,
                       onlyIncs, script>>

\* Mutant: a failed registry call of the execute step is reported as denial.
PfoAfterExec_Denied(t) ==
    LET res == thr[t].res IN
    /\ thr[t].pc = "pfo_ret"
    /\ thr[t].phase = "exec"
    /\ thr' = [thr EXCEPT ![t] =
                 IF ~res.ok THEN TopReturn(t, Err(ErrAccessDenied))
                 ELSE IF ~res.v.ok THEN TopReturn(t, res.v)
                 ELSE [@ EXCEPT !.phase = "log", !.res = NoRet,
                                !.balance = res.v.v,
                                !.cur = Op("with_facet_mut", "AuditFacet",
                                           Cb("log_operation", res.v.v, "financial_operation"),
                                           NoFacet),
                                !.pc = "write_lock"]]
    /\ UNCHANGED <<facets, lock, core, facets0, calls, attached, incIssued, onlyIncs,
                   script>>

\* After the mutation: `?` on the registry result, `?` on the callback's result,
\* then the best-effort audit append.
PfoAfterExec(t) ==
    LET res == thr[t].res IN
    /\ thr[t].pc = "pfo_ret"
    /\ thr[t].phase = "exec"
    /\ thr' = [thr EXCEPT ![t] =
                 IF ~res.ok THEN TopReturn(t, res)
                 ELSE IF ~res.v.ok THEN TopReturn(t, res.v)
                 ELSE [@ EXCEPT !.phase = "log", !.res = NoRet,
                                !.balance = res.v.v,
                                !.cur = Op("with_facet_mut", "AuditFacet",
                                           Cb("log_operation", res.v.v, "financial_operation"),
                                           NoFacet),
                                !.pc = "write_lock"]]
    /\ UNCHANGED <<facets, lock, core, facets0, calls, attached, incIssued, onlyIncs,
                   script>>

\* Mutant: the result of the audit append is propagated with `?`.
PfoAfterLog_Propagate(t) ==
    /\ thr[t].pc = "pfo_ret"
    /\ thr[t].phase = "log"
    /\ thr' = [thr EXCEPT ![t] =
                 IF ~thr[t].res.ok THEN TopReturn(t, thr[t].res)
                 ELSE TopReturn(t, Ok(Completed(EmployeeName(ObjOf(t)), thr[t].balance)))]
    /\ UNCHANGED <<facets, lock, core, facets0, calls, attached, incIssued, onlyIncs,
                   script>>

\* After the audit append, whose result is dropped (let _ = ..).
PfoAfterLog(t) ==
    /\ thr[t].pc = "pfo_ret"
    /\ thr[t].phase = "log"
    /\ thr' = [thr EXCEPT ![t] =
                 TopReturn(t, Ok(Completed(EmployeeName(ObjOf(t)), thr[t].balance)))]
    /\ UNCHANGED <<facets, lock, core, facets0, calls, attached, incIssued, onlyIncs,
                   script>>

\* ---------------------------------------------------- get_employee_summary
\* Mutant: a failed read is propagated instead of replaced by the placeholder.
SummaryFold_Propagate(t) ==
    LET k == PartOf(thr[t].phase)
        res == thr[t].res
        sum == Append(thr[t].summary, IF res.ok THEN res.v ELSE SummaryParts[k].placeholder)
    IN  /\ thr[t].pc = "pfo_ret"
        /\ thr[t].phase \in {SummaryPhases[j] : j \in DOMAIN SummaryPhases}
        /\ thr' = [thr EXCEPT ![t] =
                     IF ~res.ok THEN TopReturn(t, res)
                     ELSE IF k = Len(SummaryParts) THEN TopReturn(t, Ok(sum))
                     ELSE [@ EXCEPT !.phase = SummaryPhases[k + 1], !.res = NoRet,
                                    !.summary = sum,
                                    !.cur = SummaryRead(k + 1),
                                    !.pc = "read_lock"]]
        /\ UNCHANGED <<facets, lock, core, facets0, calls, attached, incIssued,
                       onlyIncs, script>>

\* After a read of the summary: .unwrap_or_else(|_| placeholder), push_str, and
\* the next read or the return of the summary.
SummaryFold(t) ==
    LET k == PartOf(thr[t].phase)
        res == thr[t].res
        sum == Append(thr[t].summary, IF res.ok THEN res.v ELSE SummaryParts[k].placeholder)
    IN  /\ thr[t].pc = "pfo_ret"
        /\ thr[t].phase \in {SummaryPhases[j] : j \in DOMAIN SummaryPhases}
        /\ thr' = [thr EXCEPT ![t] =
                     IF k = Len(SummaryParts) THEN TopReturn(t, Ok(sum))
                     ELSE [@ EXCEPT !.phase = SummaryPhases[k + 1], !.res = NoRet,
                                    !.summary = sum,
                                    !.cur = SummaryRead(k + 1),
                                    !.pc = "read_lock"]]
        /\ UNCHANGED <<facets, lock, core, facets0, calls, attached, incIssued,
                       onlyIncs, script>>

\* ------------------------------------------------------------ specification
\* Facet maps an object can have once its set-up attaches have returned.
Configs ==
    {[F \in FacetTypes |->
        CASE F = "AccountFacet" -> a
          [] F = "PermissionFacet" -> p
          [] F = "AuditFacet" -> u] :
     a \in {NoFacet, AccountNew("ACC001")},
     p \in {NoFacet, PermissionNew("manager"), PermissionNew("employee")},
     u \in {NoFacet, AuditNew}}

EmptyMap == [F \in FacetTypes |-> NoFacet]

\* The successful attaches that built a facet map.
AttachedOf(m) == [F \in FacetTypes |-> IF ContainsKey(m, F) THEN <<m[F]>> ELSE <<>>]

Init ==
    /\ \E cfg \in Configs :
          /\ facets = [o \in Objects |-> IF o = "o1" THEN cfg ELSE EmptyMap]
          /\ facets0 = facets
          /\ attached = [o \in Objects |-> AttachedOf(facets[o])]
    /\ lock = [o \in Objects |-> NewLock]
    /\ core = [o \in Objects |-> Alice]
    /\ thr = [t \in Threads |-> IdleThread("o1")]
    /\ calls = 0
    /\ incIssued = [o \in Objects |-> 0]
    /\ onlyIncs = [o \in Objects |-> TRUE]
    /\ script = <<>>

Next ==
    \E t \in Threads :
        \/ \E op \in TopOps : Call(t, op)
        \/ AttachLock(t)
        \/ AttachCheck(t)
        \/ AttachStore(t)
        \/ ReadLock(t)
        \/ ReadBody(t)
        \/ WriteLock(t)
        \/ MutLookup(t)
        \/ MutCallback(t)
        \/ HasLock(t)
        \/ HasBody(t)
        \/ PfoAfterAuth(t)
        \/ PfoAfterExec(t)
        \/ PfoAfterLog(t)

Spec == Init /\ [][Next]_vars

\* A step of the call thread t is executing.
Step(t) ==
    \/ AttachLock(t)
    \/ AttachCheck(t)
    \/ AttachStore(t)
    \/ ReadLock(t)
    \/ ReadBody(t)
    \/ WriteLock(t)
    \/ MutLookup(t)
    \/ MutCallback(t)
    \/ HasLock(t)
    \/ HasBody(t)
    \/ PfoAfterAuth(t)
    \/ PfoAfterExec(t)
    \/ PfoAfterLog(t)

\* Fair scheduling: a thread whose next step stays possible takes it.  The
\* callers are free to stop issuing calls.
FairSpec == Spec /\ \A t \in Threads : WF_vars(Step(t))

\* --------------------------------------------- two objects, one call sequence
\* Two objects built alike, but for the audit facet that only o1 has.  Thread 1
\* runs a sequence of composite calls on o1; thread 2 runs the same sequence on
\* o2.  script is the sequence thread 1 has issued so far.
WithAudit == {cfg \in Configs : cfg["AuditFacet"] # NoFacet}

\* The first two threads: the caller on o1 and the caller on o2.
TwinA == CHOOSE t \in Threads : \A u \in Threads : t <= u
TwinB == TwinA + 1
Twins == {TwinA, TwinB}

\* Calls thread 2 has issued: calls counts those of both threads.
IssuedB == calls - Len(script)

InitTwin ==
    /\ \E cfg \in WithAudit :
          facets = [o \in Objects |->
                      IF o = "o1" THEN cfg ELSE [cfg EXCEPT !["AuditFacet"] = NoFacet]]
    /\ facets0 = facets
    /\ attached = [o \in Objects |-> AttachedOf(facets[o])]
    /\ lock = [o \in Objects |-> NewLock]
    /\ \E c \in Cores : core = [o \in Objects |-> c]
    /\ thr = [t \in Threads |-> IdleThread(IF t = TwinB THEN "o2" ELSE "o1")]
    /\ calls = 0
    /\ incIssued = [o \in Objects |-> 0]
    /\ onlyIncs = [o \in Objects |-> TRUE]
    /\ script = <<>>

\* Thread 1 issues the next composite call of the sequence on o1.
TwinCallA(cb) ==
    /\ thr[TwinA].pc = "idle"
    /\ Len(script) < MaxCalls
    /\ script' = Append(script, cb)
    /\ calls' = calls + 1
    /\ thr' = [thr EXCEPT ![TwinA] =
                 Issue(TwinA, Op("perform_financial_operation", "None", cb, NoFacet))]
    /\ UNCHANGED <<facets, lock, core, facets0, attached, incIssued, onlyIncs>>

\* Thread 2 issues on o2 the call thread 1 issued at the same place of the sequence.
TwinCallB ==
    /\ thr[TwinB].pc = "idle"
    /\ IssuedB < Len(script)
    /\ calls' = calls + 1
    /\ thr' = [thr EXCEPT ![TwinB] =
                 Issue(TwinB, Op("perform_financial_operation", "None",
                                 script[IssuedB + 1], NoFacet))]
    /\ UNCHANGED <<facets, lock, core, facets0, attached, incIssued, onlyIncs, script>>

\* Another holder of each object runs with_facet_mut::<PermissionFacet> with a
\* callback that panics, at the same point of the two runs: both locks are
\* poisoned.
TwinPanic ==
    /\ IssuedB = Len(script)
    /\ thr[TwinA].pc = thr[TwinB].pc
    /\ thr[TwinA].phase = thr[TwinB].phase
    /\ \A o \in Objects :
          /\ WriteFree(o)
          /\ ~lock[o].poisoned
          /\ ContainsKey(facets[o], "PermissionFacet")
    /\ lock' = [o \in Objects |-> [lock[o] EXCEPT !.poisoned = TRUE]]
    /\ UNCHANGED <<facets, core, facets0, thr, calls, attached, incIssued, onlyIncs,
                   script>>

NextTwin ==
    \/ \E cb \in FinancialCbs : TwinCallA(cb)
    \/ TwinCallB
    \/ TwinPanic
    \/ \E t \in Twins :
          \/ ReadLock(t)
          \/ ReadBody(t)
          \/ WriteLock(t)
          \/ MutLookup(t)
          \/ MutCallback(t)
          \/ PfoAfterAuth(t)
          \/ PfoAfterExec(t)
          \/ PfoAfterLog(t)

SpecTwin == InitTwin /\ [][NextTwin]_vars

\* ------------------------------------------------- get_core among the callers
\* The types T the callers ask get_core::<T> for.
CoreTypes == {c.type : c \in Cores}

\* get_core::<T>: downcast_ref on the payload; no lock is taken, the call is
\* one step.
GetCore(t, T) ==
    /\ thr[t].pc = "idle"
    /\ calls < MaxCalls
    /\ calls' = calls + 1
    /\ thr' = [thr EXCEPT ![t] =
                 [@ EXCEPT !.top = Op("get_core", T, NoCb, NoFacet),
                           !.trace = <<>>,
                           !.ret = get_core(core[ObjOf(t)], T)]]
    /\ UNCHANGED <<facets, lock, core, facets0, attached, incIssued, onlyIncs, script>>

\* The registry and composite calls made next to get_core: writers (one of
\* which panics), an attach, a has_facet and a composite call.
CoreOps ==
    {Op("with_facet_mut", "PermissionFacet", PanicCb, NoFacet),
     Op("with_facet_mut", "AccountFacet", Cb("deposit", 1, ""), NoFacet),
     Op("attach_facet", "AuditFacet", NoCb, AuditNew),
     Op("has_facet", "AccountFacet", NoCb, NoFacet),
     Op("perform_financial_operation", "None", Cb("deposit", 1, ""), NoFacet)}

\* Objects constructed with either payload.
InitCore ==
    /\ \E cfg \in Configs :
          /\ cfg["PermissionFacet"] # NoFacet
          /\ facets = [o \in Objects |-> IF o = "o1" THEN cfg ELSE EmptyMap]
    /\ facets0 = facets
    /\ attached = [o \in Objects |-> AttachedOf(facets[o])]
    /\ lock = [o \in Objects |-> NewLock]
    /\ \E c \in Cores : core = [o \in Objects |-> c]
    /\ thr = [t \in Threads |-> IdleThread("o1")]
    /\ calls = 0
    /\ incIssued = [o \in Objects |-> 0]
    /\ onlyIncs = [o \in Objects |-> TRUE]
    /\ script = <<>>

NextCore ==
    \E t \in Threads :
        \/ \E T \in CoreTypes : GetCore(t, T)
        \/ \E op \in CoreOps : Call(t, op)
        \/ AttachLock(t)
        \/ AttachCheck(t)
        \/ AttachStore(t)
        \/ ReadLock(t)
        \/ ReadBody(t)
        \/ WriteLock(t)
        \/ MutLookup(t)
        \/ MutCallback(t)
        \/ HasLock(t)
        \/ HasBody(t)
        \/ PfoAfterAuth(t)
        \/ PfoAfterExec(t)
        \/ PfoAfterLog(t)

SpecCore == InitCore /\ [][NextCore]_vars

\* ------------------------------------------- the summary among the callers
SummaryOp == Op("get_employee_summary", "None", NoCb, NoFacet)

\* The calls made next to get_employee_summary: a composite deposit, a direct
\* deposit and a writer that panics.
SummaryOps ==
    {SummaryOp,
     Op("perform_financial_operation", "None", Cb("deposit", 1, ""), NoFacet),
     Op("with_facet_mut", "AccountFacet", Cb("deposit", 1, ""), NoFacet),
     Op("with_facet_mut", "PermissionFacet", PanicCb, NoFacet)}

\* Every combination of attached and missing facets, with either payload.
InitSummary ==
    /\ \E cfg \in Configs :
          facets = [o \in Objects |-> IF o = "o1" THEN cfg ELSE EmptyMap]
    /\ facets0 = facets
    /\ attached = [o \in Objects |-> AttachedOf(facets[o])]
    /\ lock = [o \in Objects |-> NewLock]
    /\ \E c \in Cores : core = [o \in Objects |-> c]
    /\ thr = [t \in Threads |-> IdleThread("o1")]
    /\ calls = 0
    /\ incIssued = [o \in Objects |-> 0]
    /\ onlyIncs = [o \in Objects |-> TRUE]
    /\ script = <<>>

NextSummary ==
    \E t \in Threads :
        \/ \E op \in SummaryOps : Call(t, op)
        \/ ReadLock(t)
        \/ ReadBody(t)
        \/ WriteLock(t)
        \/ MutLookup(t)
        \/ MutCallback(t)
        \/ PfoAfterAuth(t)
        \/ PfoAfterExec(t)
        \/ PfoAfterLog(t)
        \/ SummaryFold(t)

SpecSummary == InitSummary /\ [][NextSummary]_vars

\* ------------------------------------------------ the account over all f64
\* f64 values of `amount` and `balance`: NaN, the two infinities and finite
\* values, of which the small integers (exact in f64) are used.
F64(k, n) == [k |-> k, n |-> n]
Fin(n) == F64("fin", n)
NaN == F64("nan", 0)
PosInf == F64("inf", 0)
NegInf == F64("ninf", 0)

\* a <= 0.0 : false for NaN.
F64LeZero(a) == a.k = "ninf" \/ (a.k = "fin" /\ a.n <= 0)

\* a >= 0.0 : false for NaN.
F64GeZero(a) == a.k = "inf" \/ (a.k = "fin" /\ a.n >= 0)

\* a > b : false when either is NaN.
F64Gt(a, b) ==
    /\ a.k # "nan" /\ b.k # "nan"
    /\ \/ a.k = "inf" /\ b.k # "inf"
       \/ a.k = "fin" /\ b.k = "ninf"
       \/ a.k = "fin" /\ b.k = "fin" /\ a.n > b.n

F64Neg(a) ==
    CASE a.k = "inf" -> NegInf
      [] a.k = "ninf" -> PosInf
      [] a.k = "fin" -> Fin(0 - a.n)
      [] OTHER -> NaN

\* a + b : NaN if either is NaN or the infinities are opposite.
F64Add(a, b) ==
    CASE a.k = "nan" \/ b.k = "nan" -> NaN
      [] a.k = "fin" /\ b.k = "fin" -> Fin(a.n + b.n)
      [] a.k = "fin" -> b
      [] b.k = "fin" -> a
      [] a.k = b.k -> a
      [] OTHER -> NaN

F64Sub(a, b) == F64Add(a, F64Neg(b))

\* a == b : false when either is NaN.
F64Eq(a, b) == a.k # "nan" /\ b.k # "nan" /\ a = b

\* AccountFacet::deposit on the f64 balance.
deposit_f64(f, amount) ==
    IF F64LeZero(amount)
    THEN [facet |-> f, ok |-> FALSE]
    ELSE [facet |-> [f EXCEPT !.balance = F64Add(@, amount)], ok |-> TRUE]

\* AccountFacet::withdraw on the f64 balance.
withdraw_f64(f, amount) ==
    IF F64LeZero(amount)
    THEN [facet |-> f, ok |-> FALSE]
    ELSE IF F64Gt(amount, f.balance)
         THEN [facet |-> f, ok |-> FALSE]
         ELSE [facet |-> [f EXCEPT !.balance = F64Sub(@, amount)], ok |-> TRUE]

\* AccountFacet::new: balance 0.0
AccountNewF64(account_number) ==
    [tid |-> "AccountFacet", balance |-> Fin(0), account_number |-> account_number]

\* The amounts the callers pass.
Amounts == {Fin(-1), Fin(0), Fin(1), Fin(2), PosInf, NaN}

AccountFns == {"deposit", "withdraw"}

\* One object with an account; script is the ledger of the calls made on it.
InitAccount ==
    /\ facets = [o \in Objects |->
                   IF o = "o1"
                   THEN [EmptyMap EXCEPT !["AccountFacet"] = AccountNewF64("ACC001")]
                   ELSE EmptyMap]
    /\ facets0 = facets
    /\ attached = [o \in Objects |-> AttachedOf(facets[o])]
    /\ lock = [o \in Objects |-> NewLock]
    /\ core = [o \in Objects |-> Alice]
    /\ thr = [t \in Threads |-> IdleThread("o1")]
    /\ calls = 0
    /\ incIssued = [o \in Objects |-> 0]
    /\ onlyIncs = [o \in Objects |-> TRUE]
    /\ script = <<>>

\* A with_facet_mut::<AccountFacet> whose callback is deposit(amount) or
\* withdraw(amount) runs under the write guard, as one step.
AccountCall(fn, amount) ==
    LET f == facets["o1"]["AccountFacet"]
        c == IF fn = "deposit" THEN deposit_f64(f, amount) ELSE withdraw_f64(f, amount)
    IN  /\ calls < MaxCalls
        /\ WriteFree("o1")
        /\ ~lock["o1"].poisoned
        /\ calls' = calls + 1
        /\ facets' = [facets EXCEPT !["o1"]["AccountFacet"] = c.facet]
        /\ script' = Append(script, [fn |-> fn, amount |-> amount, ok |-> c.ok,
                                     before |-> f.balance, after |-> c.facet.balance])
        /\ UNCHANGED <<lock, core, facets0, thr, attached, incIssued, onlyIncs>>

AccountDeposit(amount) == AccountCall("deposit", amount)

AccountWithdraw(amount) == AccountCall("withdraw", amount)

NextAccount ==
    \E amount \in Amounts :
        \/ AccountDeposit(amount)
        \/ AccountWithdraw(amount)

SpecAccount == InitAccount /\ [][NextAccount]_vars

\* ------------------------------------------- composite calls and the audit
\* The mutations the callers pass to perform_financial_operation: those of
\* FinancialCbs and the deposit that stands for example_usage's deposit(1000.0)
\* before its withdraw(250.0).
AuditCbs == FinancialCbs \cup {Cb("deposit", 4, "")}

\* Objects with the audit facet attached before the first call.
InitAudit ==
    /\ \E cfg \in WithAudit :
          facets = [o \in Objects |-> IF o = "o1" THEN cfg ELSE EmptyMap]
    /\ facets0 = facets
    /\ attached = [o \in Objects |-> AttachedOf(facets[o])]
    /\ lock = [o \in Objects |-> NewLock]
    /\ core = [o \in Objects |-> Alice]
    /\ thr = [t \in Threads |-> IdleThread("o1")]
    /\ calls = 0
    /\ incIssued = [o \in Objects |-> 0]
    /\ onlyIncs = [o \in Objects |-> TRUE]
    /\ script = <<>>

\* Thread t, which has made no call yet, calls perform_financial_operation.
\* script keeps the order of the calls and whether each was issued while no
\* other call was executing.
AuditCall(t, cb) ==
    /\ thr[t].pc = "idle"
    /\ thr[t].top = NoOp
    /\ calls < MaxCalls
    /\ calls' = calls + 1
    /\ script' = Append(script,
                        [t |-> t, alone |-> \A u \in Threads : thr[u].pc = "idle"])
    /\ thr' = [thr EXCEPT ![t] =
                 Issue(t, Op("perform_financial_operation", "None", cb, NoFacet))]
    /\ UNCHANGED <<facets, lock, core, facets0, attached, incIssued, onlyIncs>>

NextAudit ==
    \E t \in Threads :
        \/ \E cb \in AuditCbs : AuditCall(t, cb)
        \/ ReadLock(t)
        \/ ReadBody(t)
        \/ WriteLock(t)
        \/ MutLookup(t)
        \/ MutCallback(t)
        \/ PfoAfterAuth(t)
        \/ PfoAfterExec(t)
        \/ PfoAfterLog(t)

SpecAudit == InitAudit /\ [][NextAudit]_vars

\* ------------------------------------------------------- common vocabulary
\* The top-level call of t returns to its caller in this step.
Returns(t) == thr[t].pc # "idle" /\ thr'[t].pc = "idle"

\* t has issued a call and the call has returned r.
Returned(t, name) == thr[t].pc = "idle" /\ thr[t].top.name = name

\* The identity of a facet instance: what no operation on the facet changes.
SameInstance(f, g) ==
    /\ f.tid = g.tid
    /\ f.tid = "AccountFacet" => f.account_number = g.account_number
    /\ f.tid = "PermissionFacet" => f.role = g.role

\* ---------------------------------------------------------------------- C1
\* At most one successful attach per type, and the map holds that instance.
OneInstancePerType ==
    \A o \in Objects, F \in FacetTypes :
        /\ Len(attached[o][F]) <= 1
        /\ ContainsKey(facets[o], F) <=> Len(attached[o][F]) = 1
        /\ Len(attached[o][F]) = 1 => SameInstance(facets[o][F], attached[o][F][1])

\* attach_facet::<F> of t returns in this step, as the claim states it: Ok if no
\* attach of F succeeded before, else AlreadyAttached with the map untouched.
AttachOutcome(t) ==
    LET o == ObjOf(t)
        F == thr[t].cur.F
    IN  IF attached[o][F] = <<>>
        THEN /\ thr'[t].ret = Ok(Unit)
             /\ facets' = [facets EXCEPT ![o][F] = thr[t].cur.facet]
        ELSE /\ thr'[t].ret = Err(ErrAlreadyAttached)
             /\ facets' = facets

\* C1 (as stated): for every facet type and object the first attach_facet::<F>
\* returns Ok and every later one returns AlreadyAttached without inserting.
C1_AsStated ==
    [][\A t \in Threads :
          (thr[t].top.name = "attach_facet" /\ Returns(t)) => AttachOutcome(t)]_vars

\* C1 (amended): on an object whose lock is not poisoned the first
\* attach_facet::<F> returns Ok and every later one returns AlreadyAttached without
\* inserting; on a poisoned lock attach_facet returns the lock error without
\* inserting.  The map never holds more than one instance per type, and a failed
\* attach leaves the attached instance as it was.
C1_Uniqueness ==
    /\ []OneInstancePerType
    /\ [][\A t \in Threads :
             (thr[t].top.name = "attach_facet" /\ Returns(t)) =>
                IF lock[ObjOf(t)].poisoned
                THEN thr'[t].ret = Err(ErrWriteLock) /\ facets' = facets
                ELSE AttachOutcome(t)]_vars

\* A second attach_facet::<AccountFacet> has failed and the first account is
\* still the one in the map.
C1_Witness ==
    \E t \in Threads :
        /\ Returned(t, "attach_facet")
        /\ thr[t].top.F = "AccountFacet"
        /\ thr[t].ret = Err(ErrAlreadyAttached)
        /\ facets[ObjOf(t)]["AccountFacet"].account_number = "ACC001"

\* ---------------------------------------------------------------------- C2
\* The threads whose call on o is attach_facet::<F>.
AttachCallers(o, F) ==
    {t \in Threads : /\ thr[t].obj = o
                     /\ thr[t].top.name = "attach_facet"
                     /\ thr[t].top.F = F}

\* Every call made so far on o is an attach_facet::<F>, one per thread of A, on
\* a map that held no F and a lock that is not poisoned, and all have returned.
OnlyAttaches(o, F, A) ==
    /\ A # {}
    /\ calls = Cardinality(A)
    /\ ~ContainsKey(facets0[o], F)
    /\ ~lock[o].poisoned
    /\ \A t \in A : thr[t].pc = "idle"

\* C2: when threads call attach_facet::<F> concurrently on an object without a
\* facet of type F, exactly one call returns Ok, all others return the
\* already-attached error, and the map holds the instance of the successful call.
C2_OneWinner ==
    \A o \in Objects, F \in FacetTypes :
        LET A == AttachCallers(o, F)
            W == {t \in A : thr[t].ret = Ok(Unit)}
        IN  OnlyAttaches(o, F, A) =>
               /\ Cardinality(W) = 1
               /\ \A t \in A \ W : thr[t].ret = Err(ErrAlreadyAttached)
               /\ \A t \in W : facets[o][F] = thr[t].top.facet

\* Two threads have attached permission facets of different roles; one won.
C2_Witness ==
    LET A == AttachCallers("o1", "PermissionFacet") IN
    /\ OnlyAttaches("o1", "PermissionFacet", A)
    /\ Cardinality(A) = 2
    /\ \E t, u \in A : thr[t].top.facet # thr[u].top.facet

\* ---------------------------------------------------------------------- C3
AllIdle(o) == \A t \in Threads : thr[t].obj = o => thr[t].pc = "idle"

\* C3: when the only calls issued on an object are N increments (deposit(1)
\* through with_facet_mut) on its account, by any of the threads in any
\* interleaving, then once all calls have returned the balance is the initial
\* balance plus N.
C3_NoLostUpdates ==
    \A o \in Objects :
        (onlyIncs[o] /\ AllIdle(o) /\ facets0[o]["AccountFacet"] # NoFacet) =>
            facets[o]["AccountFacet"].balance =
                facets0[o]["AccountFacet"].balance + incIssued[o]

\* Every thread has issued an increment, and all increments have returned.
C3_Witness ==
    /\ onlyIncs["o1"]
    /\ AllIdle("o1")
    /\ facets0["o1"]["AccountFacet"] # NoFacet
    /\ incIssued["o1"] >= 2
    /\ \A t \in Threads : thr[t].top = IncOp
    /\ facets["o1"]["AccountFacet"].balance = incIssued["o1"]

\* ---------------------------------------------------------------------- C4
\* Threads inside the critical section of attach_facet or with_facet_mut.
Mutators(o) ==
    {t \in Threads : /\ thr[t].obj = o
                     /\ thr[t].pc \in {"attach_cs", "attach_insert", "write_cs", "cb_run"}}

\* Threads inside the critical section of with_facet or has_facet.
Readers(o) ==
    {t \in Threads : thr[t].obj = o /\ thr[t].pc \in {"read_cs", "has_cs"}}

\* C4: on every object at most one mutator is inside its critical section, and
\* while one is, no with_facet callback or has_facet check is inside its own,
\* whatever the facet types involved.
C4_Exclusion ==
    \A o \in Objects :
        /\ Cardinality(Mutators(o)) <= 1
        /\ Mutators(o) # {} => Readers(o) = {}

\* A with_facet_mut callback runs on the account while a reader of another facet
\* type waits for the lock.
C4_Witness ==
    \E t, u \in Threads :
        /\ thr[t].pc = "cb_run"
        /\ thr[t].cur.F = "AccountFacet"
        /\ thr[u].pc = "read_lock"
        /\ thr[u].cur.F = "AuditFacet"
        /\ thr[u].obj = thr[t].obj

\* ---------------------------------------------------------------------- C5
\* t's call is a with_facet or with_facet_mut of the caller.
Lookup(t) == thr[t].top.name \in {"with_facet", "with_facet_mut"}

\* The facet the call of t names is not in the map of its object.
Absent(t) == facets[ObjOf(t)][thr[t].top.F] = NoFacet

LockError(t) == IF thr[t].top.name = "with_facet" THEN ErrReadLock ELSE ErrWriteLock

\* No callback runs on a facet that is not in the map.
NoCallbackWithoutFacet ==
    \A t \in Threads : thr[t].pc = "cb_run" => facets[ObjOf(t)][thr[t].cur.F] # NoFacet

\* C5 (as stated): with_facet::<F> and with_facet_mut::<F> on an object with no
\* facet of type F return the facet-not-found error, never invoke the operation
\* and leave the map and every facet unchanged.
C5_AsStated ==
    [][\A t \in Threads :
          (Lookup(t) /\ Returns(t) /\ Absent(t)) =>
              /\ thr'[t].ret = Err(ErrNotFound)
              /\ thr'[t].trace = <<>>
              /\ facets' = facets]_vars

\* C5 (amended): with_facet::<F> and with_facet_mut::<F> on an object with no
\* facet of type F return the facet-not-found error, or the lock error when the
\* lock of the object is poisoned; in both cases the operation is never invoked
\* and the map and every facet are unchanged.
C5_FailClosed ==
    /\ []NoCallbackWithoutFacet
    /\ [][\A t \in Threads :
             (Lookup(t) /\ Returns(t) /\ Absent(t)) =>
                 /\ thr'[t].ret = IF lock[ObjOf(t)].poisoned
                                  THEN Err(LockError(t))
                                  ELSE Err(ErrNotFound)
                 /\ thr'[t].trace = <<>>
                 /\ facets' = facets]_vars

\* A with_facet and a with_facet_mut have returned facet-not-found on an object
\* without the facet, with no callback run.
C5_Witness ==
    \E t, u \in Threads :
        /\ Returned(t, "with_facet") /\ Returned(u, "with_facet_mut")
        /\ Absent(t) /\ Absent(u)
        /\ thr[t].ret = Err(ErrNotFound) /\ thr[u].ret = Err(ErrNotFound)
        /\ thr[t].trace = <<>> /\ thr[u].trace = <<>>
        /\ facets = facets0

\* ---------------------------------------------------------------------- C6
Perf(t) == thr[t].top.name = "perform_financial_operation"

\* The permission facet of o is attached and grants "financial_operations".
Grants(o) ==
    /\ facets[o]["PermissionFacet"] # NoFacet
    /\ has_permission(facets[o]["PermissionFacet"], FinOp)

\* The authorization callback of the call ran and returned true.
AuthOk(tr) == Len(tr) >= 1 /\ tr[1] = Ev("auth", TRUE)

\* The permission read of the composite returns in this step.
AuthReadReturns(t) ==
    /\ Perf(t)
    /\ thr[t].phase = "auth"
    /\ thr[t].pc \in {"read_lock", "read_cs"}
    /\ thr'[t].pc = "pfo_ret"

\* A call that was not authorized stays in its authorization step, has run no
\* mutation and no audit append, and returns the authorization-denied error.
DeniedStopsAtAuth ==
    \A t \in Threads :
        (Perf(t) /\ ~AuthOk(thr[t].trace)) =>
            /\ thr[t].phase \in {"auth", "none"}
            /\ Len(thr[t].trace) <= 1
            /\ thr[t].pc = "idle" => thr[t].ret = Err(ErrAccessDenied)

\* C6: perform_financial_operation returns the authorization-denied error
\* whenever the permission facet is absent or does not grant
\* "financial_operations" when it is read; the caller's mutation is then never
\* invoked, and the call writes neither the account nor the audit facet.
C6_FailClosedDenial ==
    /\ []DeniedStopsAtAuth
    /\ [][\A t \in Threads :
             /\ (AuthReadReturns(t) /\ ~Grants(ObjOf(t))) => ~AuthOk(thr'[t].trace)
             /\ (Perf(t) /\ thr[t].phase = "auth" /\ thr'[t] # thr[t]) =>
                    facets' = facets]_vars

\* An "employee" was denied; account and audit trail are as they were attached.
C6_Witness ==
    \E t \in Threads :
        /\ Returned(t, "perform_financial_operation")
        /\ thr[t].ret = Err(ErrAccessDenied)
        /\ facets[ObjOf(t)]["PermissionFacet"] = PermissionNew("employee")
        /\ facets[ObjOf(t)]["AccountFacet"] = AccountNew("ACC001")
        /\ facets[ObjOf(t)]["AuditFacet"] = AuditNew

\* ---------------------------------------------------------------------- C7
\* t is inside the critical section of a with_facet_mut on facet type F.
InMutCs(t, F) == thr[t].pc \in {"write_cs", "cb_run"} /\ thr[t].cur.F = F

\* The callbacks of one composite call run in the order authorize, mutate, log,
\* each one only after the one before it succeeded; the mutation's critical
\* section is entered after the authorization read returned true, the audit
\* append's after the mutation returned Ok.
StepsInOrder ==
    \A t \in Threads :
        Perf(t) =>
            LET tr == thr[t].trace IN
            /\ Len(tr) <= 3
            /\ Len(tr) >= 1 => tr[1].ev = "auth"
            /\ Len(tr) >= 2 => tr[1].ok /\ tr[2].ev = "exec"
            /\ Len(tr) >= 3 => tr[2].ok /\ tr[3] = Ev("log", TRUE)
            /\ thr[t].pc \in {"read_lock", "read_cs"} => tr = <<>>
            /\ InMutCs(t, "AccountFacet") => tr = <<Ev("auth", TRUE)>>
            /\ InMutCs(t, "AuditFacet") => tr = <<Ev("auth", TRUE), Ev("exec", TRUE)>>

\* The entry the composite appends for a mutation that returned balance b.
FinancialEntry(b) ==
    [operation |-> "financial_operation", details |-> Details("New balance: {}", b)]

\* A step of a composite call that changes the audit facet appends one entry,
\* for the balance its own mutation returned, after its authorization and its
\* mutation both succeeded.
AppendsOwnEntry(t) ==
    LET o == ObjOf(t) IN
    (Perf(t) /\ thr'[t] # thr[t] /\ facets'[o]["AuditFacet"] # facets[o]["AuditFacet"]) =>
        /\ thr[t].trace = <<Ev("auth", TRUE), Ev("exec", TRUE)>>
        /\ thr[t].res = NoRet
        /\ facets'[o]["AuditFacet"].entries =
              Append(facets[o]["AuditFacet"].entries, FinancialEntry(thr[t].balance))

\* C7: within every call of perform_financial_operation the authorization read
\* completes before the account mutation starts, the mutation completes before
\* the audit append starts, and an audit entry is appended for the call only if
\* its authorization and its mutation both succeeded.
C7_CompositeOrdering ==
    /\ []StepsInOrder
    /\ [][\A t \in Threads : AppendsOwnEntry(t)]_vars

\* A composite call has run all three steps and its entry is in the trail.
C7_Witness ==
    \E t \in Threads :
        /\ Returned(t, "perform_financial_operation")
        /\ thr[t].trace = <<Ev("auth", TRUE), Ev("exec", TRUE), Ev("log", TRUE)>>
        /\ thr[t].ret.ok
        /\ facets[ObjOf(t)]["AuditFacet"].entries = <<FinancialEntry(thr[t].ret.v.balance)>>

\* ---------------------------------------------------------------------- C8
\* The mutation of the call ran and returned a domain error.
MutationFailed(tr) == Len(tr) >= 2 /\ tr[2] = Ev("exec", FALSE)

DomainErrors == {ErrDepositAmount, ErrWithdrawAmount, ErrInsufficient}

\* What the claim says of a call that returns although it was authorized: `nf`
\* is the result it allows when the account is absent.
ExecuteFailure(t, nf) ==
    LET o == ObjOf(t) IN
    (Perf(t) /\ Returns(t) /\ AuthOk(thr[t].trace)) =>
        /\ facets[o]["AccountFacet"] = NoFacet =>
              /\ thr'[t].ret \in nf
              /\ thr'[t].trace = <<Ev("auth", TRUE)>>
        /\ MutationFailed(thr[t].trace) =>
              /\ thr'[t].ret = thr[t].res.v
              /\ ~thr'[t].ret.ok /\ thr'[t].ret.v \in DomainErrors
              /\ Len(thr'[t].trace) = 2

\* A step of a composite call in its execute step writes no facet but the account.
WritesOnlyAccount(t) ==
    (Perf(t) /\ thr[t].phase = "exec" /\ thr'[t] # thr[t]) =>
        \A F \in FacetTypes \ {"AccountFacet"} :
            facets'[ObjOf(t)][F] = facets[ObjOf(t)][F]

\* C8 (as stated): when authorization succeeds but the account facet is absent
\* the composite returns facet-not-found; when the mutation returns a domain
\* error it returns that error; in both cases no audit entry is appended and only
\* the account facet is written.
C8_AsStated ==
    [][\A t \in Threads :
          ExecuteFailure(t, {Err(ErrNotFound)}) /\ WritesOnlyAccount(t)]_vars

\* C8 (amended): when authorization succeeds but the account facet is absent
\* the composite returns facet-not-found, or the lock error if the lock was
\* poisoned after the authorization step; the rest as stated.
C8_ExecuteFailure ==
    [][\A t \in Threads :
          /\ ExecuteFailure(t, {Err(ErrNotFound), Err(ErrWriteLock)})
          /\ (Perf(t) /\ Returns(t) /\ ~lock[ObjOf(t)].poisoned /\ AuthOk(thr[t].trace)
                /\ facets[ObjOf(t)]["AccountFacet"] = NoFacet)
                => thr'[t].ret = Err(ErrNotFound)
          /\ WritesOnlyAccount(t)]_vars

\* An authorized call found no account: facet-not-found, nothing appended.
C8_Witness ==
    \E t \in Threads :
        /\ Returned(t, "perform_financial_operation")
        /\ thr[t].ret = Err(ErrNotFound)
        /\ thr[t].trace = <<Ev("auth", TRUE)>>
        /\ facets[ObjOf(t)]["AccountFacet"] = NoFacet
        /\ facets[ObjOf(t)]["AuditFacet"] = AuditNew

\* ---------------------------------------------------------------------- C9
\* Both threads are through the same number of calls of the sequence.
TwinsAtRest ==
    /\ thr[TwinA].pc \in {"idle", "panicked"}
    /\ thr[TwinB].pc \in {"idle", "panicked"}
    /\ IssuedB = Len(script)

\* The mutation of the call of t was committed: it ran and returned Ok.
Committed(t) == Len(thr[t].trace) >= 2 /\ thr[t].trace[2] = Ev("exec", TRUE)

\* C9: on two objects that differ only in the audit facet, the same sequence of
\* perform_financial_operation calls returns the same results and leaves the
\* same account and permission state; a call whose mutation was committed
\* returns Ok although the audit facet is missing or the append failed.
C9_BestEffortLogging ==
    /\ TwinsAtRest =>
          /\ thr[TwinA].pc = thr[TwinB].pc
          /\ thr[TwinA].ret = thr[TwinB].ret
          /\ facets["o1"]["AccountFacet"] = facets["o2"]["AccountFacet"]
          /\ facets["o1"]["PermissionFacet"] = facets["o2"]["PermissionFacet"]
    /\ \A t \in Twins : (thr[t].pc = "idle" /\ Committed(t)) => thr[t].ret.ok

\* Both threads have committed two calls; only o1 has audit entries, and the
\* results, the balance and the permissions agree.
C9_Witness ==
    /\ TwinsAtRest
    /\ Len(script) >= 2
    /\ Committed(TwinA) /\ Committed(TwinB)
    /\ thr[TwinA].ret.ok /\ thr[TwinB].ret = thr[TwinA].ret
    /\ Len(facets["o1"]["AuditFacet"].entries) >= 2
    /\ facets["o2"]["AuditFacet"] = NoFacet

\* --------------------------------------------------------------------- C10
LockPcs == {"attach_lock", "read_lock", "write_lock", "has_lock"}

LockErrors == {ErrReadLock, ErrWriteLock}

\* The registry call of t fails with the lock error in this step: the error
\* value goes to the caller, or to the composite that issued the call.
FailsWithLockError(t) ==
    \/ thr'[t].pc = "idle" /\ ~thr'[t].ret.ok /\ thr'[t].ret.v \in LockErrors
    \/ thr'[t].pc = "pfo_ret" /\ ~thr'[t].res.ok /\ thr'[t].res.v \in LockErrors

\* C10 (as stated): once the lock of an object is poisoned, every later
\* attach_facet, has_facet, with_facet and with_facet_mut on it fails with a
\* propagated error value and none proceeds against the facet map.
C10_AsStated ==
    [][\A t \in Threads :
          (lock[ObjOf(t)].poisoned /\ thr[t].pc \in LockPcs /\ thr'[t] # thr[t]) =>
              FailsWithLockError(t)]_vars

\* What holds of the three operations that use map_err: on a poisoned lock
\* attach_facet, with_facet and with_facet_mut return the lock error.
C10_ResultOperationsFail ==
    [][\A t \in Threads :
          (lock[ObjOf(t)].poisoned /\ thr[t].pc \in LockPcs \ {"has_lock"}
             /\ thr'[t] # thr[t]) => FailsWithLockError(t)]_vars

\* --------------------------------------------------------------------- C11
\* t is inside a has_facet call of its caller.
InHasFacet(t) == thr[t].top.name = "has_facet" /\ thr[t].pc \in {"has_lock", "has_cs"}

\* C11 (as stated): has_facet::<F> never fails: every call returns a boolean
\* that is true iff a facet of type F is in the map, and no step of the call
\* changes the map or a facet.
C11_AsStated ==
    [][\A t \in Threads :
          (InHasFacet(t) /\ thr'[t] # thr[t]) =>
              /\ thr'[t].pc # "panicked"
              /\ facets' = facets
              /\ Returns(t) =>
                    thr'[t].ret = Ok(facets[ObjOf(t)][thr[t].top.F] # NoFacet)]_vars

\* --------------------------------------------------------------------- C12
\* An attach_facet::<F> has returned Ok on o.
AttachedOk(o, F) == attached[o][F] # <<>>

\* The map of o holds under F the instance of the first successful attach.
HoldsAttached(o, F) ==
    /\ facets[o][F] # NoFacet
    /\ SameInstance(facets[o][F], attached[o][F][1])

\* The result with which the registry call t is executing returns in this
\* step, to the caller or to the composite operation.
RegistryResult(t) == IF thr'[t].pc = "pfo_ret" THEN thr'[t].res ELSE thr'[t].ret

\* The registry call of t, a has_facet, returns false in this step.
HasReturnsFalse(t) ==
    /\ thr[t].pc = "has_cs"
    /\ thr'[t].pc = "idle"
    /\ RegistryResult(t) = Ok(FALSE)

\* The registry call of t, a with_facet or with_facet_mut, returns the
\* facet-not-found error in this step.
LookupReturnsNotFound(t) ==
    /\ thr[t].pc \in {"read_cs", "write_cs", "cb_run"}
    /\ thr'[t].pc \in {"idle", "pfo_ret"}
    /\ ~RegistryResult(t).ok
    /\ RegistryResult(t).v = ErrNotFound

\* C12: once attach_facet::<F> has returned Ok on an object, every later state
\* holds that same instance under F; no step removes or replaces a facet;
\* has_facet::<F> does not return false and with_facet::<F> and
\* with_facet_mut::<F> do not return facet-not-found.
C12_Permanence ==
    /\ [](\A o \in Objects, F \in FacetTypes : AttachedOk(o, F) => HoldsAttached(o, F))
    /\ [][\A o \in Objects, F \in FacetTypes :
             facets[o][F] # NoFacet =>
                 facets'[o][F] # NoFacet /\ SameInstance(facets'[o][F], facets[o][F])]_vars
    /\ [][\A t \in Threads :
             (thr[t].cur.F \in FacetTypes /\ AttachedOk(ObjOf(t), thr[t].cur.F)) =>
                 /\ ~HasReturnsFalse(t)
                 /\ ~LookupReturnsNotFound(t)]_vars

\* An account attached by a call of the interface has since been mutated by a
\* deposit and is still the attached instance.
C12_Witness ==
    /\ facets0["o1"]["AccountFacet"] = NoFacet
    /\ attached["o1"]["AccountFacet"] = <<AccountNew("ACC002")>>
    /\ facets["o1"]["AccountFacet"].balance > 0
    /\ HoldsAttached("o1", "AccountFacet")

\* --------------------------------------------------------------------- C13
\* The last call of t was get_core::<T>, which has returned.
GotCore(t) == thr[t].pc = "idle" /\ thr[t].top.name = "get_core"

\* get_core can be called and returns at once, whoever holds the lock and
\* whether or not the lock is poisoned.
GetCoreNeverBlocks ==
    \A t \in Threads, T \in CoreTypes :
        (thr[t].pc = "idle" /\ calls < MaxCalls) => ENABLED GetCore(t, T)

\* C13: get_core::<T> returns the payload iff T is the type the object was
\* constructed with, None for every other type; it takes no lock, so it
\* returns while another thread holds the write lock and after the lock is
\* poisoned; no step replaces the payload.
C13_GetCore ==
    /\ [](\A t \in Threads :
            GotCore(t) =>
                /\ thr[t].ret.ok <=> core[ObjOf(t)].type = thr[t].top.F
                /\ thr[t].ret.ok => thr[t].ret.v = core[ObjOf(t)])
    /\ []GetCoreNeverBlocks
    /\ [][core' = core]_vars

\* get_core::<Employee> has returned the employee while another thread was
\* inside a with_facet_mut callback, holding the write lock.
C13_Witness ==
    \E t, u \in Threads :
        /\ GotCore(t)
        /\ thr[t].top.F = "Employee"
        /\ thr[t].ret.ok
        /\ thr[t].ret.v.name = "Alice Johnson"
        /\ thr[u].pc = "cb_run"
        /\ lock[ObjOf(t)].writer = u

\* --------------------------------------------------------------------- C14
\* t is executing a call: it has neither returned nor unwound.
Active(t) == thr[t].pc \notin {"idle", "panicked"}

\* t waits for the lock of its object.
AtLock(t) == thr[t].pc \in LockPcs

\* Some thread that is executing a call can take a step.
NoDeadlock == (\E t \in Threads : Active(t)) => \E t \in Threads : ENABLED Step(t)

\* A thread past the lock acquisition can always take its next step.
RunsToCompletion == \A t \in Threads : (Active(t) /\ ~AtLock(t)) => ENABLED Step(t)

\* C14 (as stated): under fair scheduling every call issued by any thread
\* eventually returns.
C14_AsStated == \A t \in Threads : (thr[t].pc # "idle") ~> (thr[t].pc = "idle")

\* C14 (amended): a registry operation that has acquired the lock never waits
\* again; under fair scheduling every call eventually returns or, when its
\* callback panics or has_facet finds the lock poisoned, unwinds with the
\* panic; in no reachable state are all executing threads blocked on the lock.
C14_Termination ==
    /\ []NoDeadlock
    /\ []RunsToCompletion
    /\ \A t \in Threads : Active(t) ~> ~Active(t)

\* A with_facet_mut waits for the lock while another thread holds the write
\* guard inside its callback.
C14_Witness ==
    \E t, u \in Threads :
        /\ thr[t].pc = "write_lock"
        /\ thr[u].pc = "cb_run"
        /\ lock[ObjOf(t)].writer = u
        /\ ~ENABLED Step(t)

\* --------------------------------------------------------------------- C15
\* What with_facet::<F>(cb) returns when it runs alone on the map m.
AloneResult(m, F, cb) ==
    IF m[F] = NoFacet THEN Err(ErrNotFound) ELSE Ok(ReadCb(m[F], cb))

\* A reader waiting for the lock is admitted whenever no write guard is held,
\* however many read guards are.
ReadersAdmitted ==
    \A t \in Threads :
        (thr[t].pc \in {"read_lock", "has_lock"} /\ lock[ObjOf(t)].writer = NoThread) =>
            ENABLED (ReadLock(t) \/ HasLock(t))

\* The with_facet of t leaves its critical section with the result of a run
\* alone on the current map (or with the panic of its callback).
ReadsAsAlone(t) ==
    LET cur == thr[t].cur IN
    (thr[t].pc = "read_cs" /\ thr'[t] # thr[t]) =>
        IF cur.cb.fn = "panic" /\ facets[ObjOf(t)][cur.F] # NoFacet
        THEN thr'[t].pc = "panicked"
        ELSE RegistryResult(t) = AloneResult(facets[ObjOf(t)], cur.F, cur.cb)

\* C15: any number of with_facet and has_facet calls are inside their critical
\* sections at the same time; the lock is poisoned and the map is changed only
\* by a step of a mutator, so no read-only call makes a with_facet fail; the
\* result of a with_facet is the one of a run alone on the same state.
C15_ReaderNonInterference ==
    /\ []ReadersAdmitted
    /\ [][\A t \in Threads : ReadsAsAlone(t)]_vars
    /\ [][\A o \in Objects :
             (lock'[o].poisoned # lock[o].poisoned \/ facets'[o] # facets[o]) =>
                 Mutators(o) # {}]_vars

\* Two with_facet calls on different facet types are inside their critical
\* sections at the same time.
C15_Witness ==
    \E t, u \in Threads :
        /\ thr[t].pc = "read_cs" /\ thr[u].pc = "read_cs"
        /\ thr[t].obj = thr[u].obj
        /\ thr[t].cur.F = "AccountFacet" /\ thr[u].cur.F = "AuditFacet"
        /\ lock[ObjOf(t)].readers = {t, u}

\* --------------------------------------------------------------------- C16
\* t is executing get_employee_summary.
InSummary(t) == thr[t].top.name = "get_employee_summary" /\ thr[t].pc # "idle"

\* Line k of the facet part of the summary s on object o.
PartLine(o, s, k) == s[Len(CoreLines(o)) + k]

\* The summary returned holds the core lines and one line per part; a part
\* whose facet is missing is its placeholder.
WellFormedSummary(o, s) ==
    /\ Len(s) = Len(CoreLines(o)) + Len(SummaryParts)
    /\ SubSeq(s, 1, Len(CoreLines(o))) = CoreLines(o)
    /\ \A k \in DOMAIN SummaryParts :
          facets[o][SummaryParts[k].F] = NoFacet =>
              PartLine(o, s, k) = SummaryParts[k].placeholder

\* C16: get_employee_summary returns a summary and never an error, for every
\* combination of attached and missing facets; each missing facet contributes
\* its fixed placeholder; no step of the call takes the write lock, poisons
\* the lock, panics or changes the map or a facet.
C16_Summary ==
    [][\A t \in Threads :
          (InSummary(t) /\ thr'[t] # thr[t]) =>
              /\ facets' = facets
              /\ lock'[ObjOf(t)].writer = lock[ObjOf(t)].writer
              /\ lock'[ObjOf(t)].poisoned = lock[ObjOf(t)].poisoned
              /\ thr'[t].pc # "panicked"
              /\ Returns(t) =>
                    /\ thr'[t].ret.ok
                    /\ WellFormedSummary(ObjOf(t), thr'[t].ret.v)]_vars

\* A summary has been returned on an object with an account that holds a
\* deposit, a permission facet and no audit facet.
C16_Witness ==
    \E t \in Threads :
        /\ Returned(t, "get_employee_summary")
        /\ thr[t].ret.ok
        /\ facets["o1"]["AuditFacet"] = NoFacet
        /\ PartLine("o1", thr[t].ret.v, 1) = <<"Account", "ACC001", 1>>
        /\ PartLine("o1", thr[t].ret.v, 2)[1] = "Role"
        /\ PartLine("o1", thr[t].ret.v, 3) = <<"No audit information">>

\* --------------------------------------------------------------------- C17
\* Every entry of every map holds a facet of the type it is stored under.
KeysMatchTypes ==
    \A o \in Objects, F \in FacetTypes : facets[o][F] # NoFacet => facets[o][F].tid = F

\* r is the downcast error.
IsDowncastError(r) == ~r.ok /\ r.v = ErrDowncast

\* C17: each entry of the facet map stored under type identity T holds a facet
\* of concrete type T; no with_facet or with_facet_mut returns the downcast
\* error, and a callback for type F only ever runs on a facet of type F.
C17_KeyTypeConsistency ==
    /\ KeysMatchTypes
    /\ \A t \in Threads :
          /\ ~IsDowncastError(thr[t].ret)
          /\ ~IsDowncastError(thr[t].res)
          /\ thr[t].pc = "cb_run" => facets[ObjOf(t)][thr[t].cur.F].tid = thr[t].cur.F

\* A permission facet attached by a call of the interface has been read by a
\* with_facet::<PermissionFacet> of another thread.
C17_Witness ==
    \E t \in Threads :
        /\ facets0["o1"]["PermissionFacet"] = NoFacet
        /\ attached["o1"]["PermissionFacet"] # <<>>
        /\ Returned(t, "with_facet")
        /\ thr[t].top.F = "PermissionFacet"
        /\ thr[t].ret.ok

\* --------------------------------------------------------------------- C18
\* Successful deposits minus successful withdrawals of the first n ledger entries.
RECURSIVE LedgerSum(_)
LedgerSum(n) ==
    IF n = 0 THEN Fin(0)
    ELSE LET e == script[n] IN
         IF ~e.ok THEN LedgerSum(n - 1)
         ELSE IF e.fn = "deposit" THEN F64Add(LedgerSum(n - 1), e.amount)
         ELSE F64Sub(LedgerSum(n - 1), e.amount)

\* The call of ledger entry e had to be rejected: a non-positive amount, or a
\* withdrawal larger than the balance.
MustFail(e) ==
    \/ F64LeZero(e.amount)
    \/ e.fn = "withdraw" /\ F64Gt(e.amount, e.before)

\* The balance is a number >= 0 and is what the ledger adds up to; the calls
\* that had to be rejected were, and a rejected call left the balance alone.
BalanceInvariant ==
    LET b == facets["o1"]["AccountFacet"].balance IN
    /\ F64GeZero(b)
    /\ F64Eq(b, LedgerSum(Len(script)))
    /\ \A i \in DOMAIN script :
          /\ MustFail(script[i]) => ~script[i].ok
          /\ ~script[i].ok => script[i].after = script[i].before

\* C18 (as stated): after any sequence of deposit and withdraw calls the
\* balance is never negative and equals the successful deposits minus the
\* successful withdrawals; calls with a non-positive amount and withdrawals
\* larger than the balance return an error and leave the balance unchanged.
C18_AsStated == BalanceInvariant

\* The same for callers that pass finite amounts only.
C18_FiniteAmounts ==
    (\A i \in DOMAIN script : script[i].amount.k = "fin") => BalanceInvariant

\* --------------------------------------------------------------------- C19
AuditEntries(o) == facets[o]["AuditFacet"].entries

\* The calls that returned Ok, in the order they were issued.
OkCalls == SelectSeq(script, LAMBDA e : thr[e.t].pc = "idle" /\ thr[e.t].ret.ok)

\* Every call issued has returned and the lock was never poisoned.
AllReturned ==
    /\ \A t \in Threads : thr[t].pc = "idle"
    /\ ~lock["o1"].poisoned

\* No call was issued while another was executing.
Sequential == \A i \in DOMAIN script : script[i].alone

\* p is a prefix of q.
IsPrefix(p, q) == Len(p) <= Len(q) /\ SubSeq(q, 1, Len(p)) = p

\* C19: on an object with the audit facet attached before the first call and a
\* lock that is never poisoned, once the perform_financial_operation calls have
\* returned there are as many audit entries as calls that returned Ok; entries
\* are only appended; in a sequential run the k-th entry records the balance
\* the k-th successful call returned.
C19_AuditAccounting ==
    /\ [](AllReturned =>
            /\ Len(AuditEntries("o1")) = Len(OkCalls)
            /\ Sequential =>
                  \A k \in DOMAIN OkCalls :
                      AuditEntries("o1")[k] =
                          [operation |-> "financial_operation",
                           details |-> Details("New balance: {}",
                                               thr[OkCalls[k].t].ret.v.balance)])
    /\ [][IsPrefix(AuditEntries("o1"), AuditEntries("o1")')]_vars

\* The run of example_usage: a deposit and then a withdrawal of a quarter of
\* it, one after the other, leave three quarters and the two entries.
C19_Witness ==
    /\ AllReturned
    /\ Sequential
    /\ Len(OkCalls) = 2
    /\ thr[OkCalls[1].t].top.cb = Cb("deposit", 4, "")
    /\ thr[OkCalls[2].t].top.cb = Cb("withdraw", 1, "")
    /\ facets["o1"]["AccountFacet"].balance = 3
    /\ AuditEntries("o1") =
          <<[operation |-> "financial_operation", details |-> Details("New balance: {}", 4)],
            [operation |-> "financial_operation", details |-> Details("New balance: {}", 3)]>>

\* --------------------------------------------------------------------- C20
\* The composite call of t is running the caller's mutation on the account.
MutatingAccount(t) ==
    /\ Perf(t)
    /\ thr[t].phase = "exec"
    /\ thr[t].pc = "cb_run"

\* C20 (as stated): whenever perform_financial_operation runs the caller's
\* mutation on the AccountFacet, the PermissionFacet of the object grants
\* "financial_operations" at that instant.
C20_AsStated == \A t \in Threads : MutatingAccount(t) => Grants(ObjOf(t))

====
